---- MODULE Spec2Model ----
(***************************************************************************)
(* A model of fetch_tefas_data.py: the TEFAS fund scraper.                 *)
(*                                                                         *)
(* fetch_all_funds is a linear script: warm-up GET, date range, fund       *)
(* directory POST, seeding of the accumulating map from the previous       *)
(* snapshot file, the per-fund resolver loop (get_price: primary request,  *)
(* fallback request; merge; periodic save_data), the final save_data in    *)
(* the finally block, push_to_firebase and push_to_supabase.               *)
(*                                                                         *)
(* File input and output are taken to succeed.                            *)
(*                                                                         *)
(* Fund codes are modelled by small integers (each stands for one distinct *)
(* code string).  A Python dict is modelled with its insertion order: a    *)
(* record [keys |-> sequence of keys, val |-> function on the keys].       *)
(* Prices are integers; 0 stands for every falsy price (None, 0, absent).  *)
(* Timestamps (datetime.now().isoformat()) are logical: the pair           *)
(* <<run, checkpoint period of the fund being processed>>.                 *)
(***************************************************************************)
EXTENDS Integers, Sequences, FiniteSets, TLC

----------------------------------------------------------------------------
(* Bounds of the model *)

MaxFunds == 2
MaxRuns == 2
LongPeriods == 2
MaxRecords == 1001
FirstDay == 738886
SpanDays == 1100

(* Program constants *)

CheckpointEvery == 100
batch_size == 500

\* the fund codes of the directory and the prices upstream can report
Codes == {1, 2}
Prices == {1}
NoPrice == 0

----------------------------------------------------------------------------
(* Python dict with insertion order *)

EmptyDict == [keys |-> <<>>, val |-> <<>>]

Keys(m) == {m.keys[i] : i \in DOMAIN m.keys}

DictSet(m, k, v) ==
    [keys |-> IF k \in Keys(m) THEN m.keys ELSE Append(m.keys, k),
     val  |-> [x \in Keys(m) \cup {k} |-> IF x = k THEN v ELSE m.val[x]]]

(* json.dump of a dict: the members in order, as <<key, value>> pairs *)
JsonObject(m) == [i \in DOMAIN m.keys |-> <<m.keys[i], m.val[m.keys[i]]>>]

(* json.load of an object: a dict built member by member, last one wins *)
RECURSIVE ParseObject(_, _)
ParseObject(pairs, n) ==
    IF n = 0 THEN EmptyDict
    ELSE DictSet(ParseObject(pairs, n - 1), pairs[n][1], pairs[n][2])

JsonDump(snapshot) ==
    [lastUpdated |-> snapshot.lastUpdated,
     count       |-> snapshot.count,
     data        |-> JsonObject(snapshot.data)]

JsonLoad(text) ==
    [lastUpdated |-> text.lastUpdated,
     count       |-> text.count,
     data        |-> ParseObject(text.data, Len(text.data))]

----------------------------------------------------------------------------
VARIABLES
    pc,                 \* position of fetch_all_funds
    run,                \* which invocation of the script this is
    file,               \* src/data/tefas_data.json: <<>> (absent) or <<text>>
    warmup,             \* outcome of the warm-up GET
    dirResp,            \* kind of the fund-directory response
    fund_list,          \* fund_list
    fund_daily_returns, \* fund_daily_returns
    price_data_map,     \* price_data_map
    count,              \* count
    tried,              \* requests get_price has issued for the current fund
    prim,               \* the primary response for the current fund
    res,                \* (price, date) returned by get_price
    interrupted,        \* an exception is pending in the finally block
    final_result,       \* final_result: <<>> (None) or <<snapshot>>
    fb,                 \* how push_to_firebase ended
    sbres,              \* how push_to_supabase ended
    records,            \* push_to_supabase: records
    sb_i,               \* push_to_supabase: i
    posted,             \* push_to_supabase: the requests.post calls made
    called,             \* external effects of this run, by kind
    arg,                \* get_prev_workday: the argument
    d,                  \* get_prev_workday: d
    dpc                 \* get_prev_workday: position

vars == <<pc, run, file, warmup, dirResp, fund_list,
          fund_daily_returns, price_data_map, count, tried, prim, res,
          interrupted, final_result, fb, sbres, records, sb_i, posted,
          called, arg, d, dpc>>

pipeVars == <<pc, run, file, warmup, dirResp, fund_list,
              fund_daily_returns, price_data_map, count, tried, prim, res,
              interrupted, final_result, fb, sbres, records, sb_i, posted,
              called>>

dateVars == <<arg, d, dpc>>

----------------------------------------------------------------------------
(* Responses of the outside world *)

WarmupOutcomes == {"ok", "non2xx", "raised"}

\* malformed: response.json() raises; null: the body is JSON but no container
\* ('data' in data raises); nodata: no 'data' member; emptydata: 'data' is
\* empty or null; baditem: an item without FONKODU; ok: a list of funds.
DirResponses(lists) ==
    {[kind |-> k, funds |-> <<>>] :
        k \in {"malformed", "null", "nodata", "emptydata", "baditem"}}
    \cup {[kind |-> "ok", funds |-> l] : l \in lists}

\* raise: the request or r.json() raises; nodata: d.get('data') is falsy;
\* data: a list whose first record has FIYAT = price (0: no usable price).
PrimaryResponses ==
    {[kind |-> k, price |-> NoPrice] : k \in {"raise", "nodata"}}
    \cup {[kind |-> "data", price |-> p] : p \in Prices \cup {NoPrice}}

\* raise: the request or r.json() raises; noinfo: no fundInfo;
\* info: fundInfo whose first record has SONFIYAT = price.
FallbackResponses ==
    {[kind |-> k, price |-> NoPrice] : k \in {"raise", "noinfo"}}
    \cup {[kind |-> "info", price |-> p] : p \in Prices \cup {NoPrice}}

FirebaseOutcomes == {"import_error", "nocred", "error", "ok"}

PostOutcomes == {"ok", "status", "raise"}

ShortLists == UNION {[1..n -> Codes] : n \in 1..MaxFunds}

\* a directory of LongPeriods * CheckpointEvery + 1 funds (codes may repeat)
LongLists ==
    {[i \in 1..n |-> ((i - 1) % Cardinality(Codes)) + 1] :
        n \in {LongPeriods * CheckpointEvery + 1}}

----------------------------------------------------------------------------
(* The pieces of fetch_all_funds *)

NoResult == [price |-> NoPrice, date |-> "None"]
NoResponse == [kind |-> "none", price |-> NoPrice]

Terminal == {"aborted", "exit", "done"}

\* datetime.now().isoformat(), as a logical time
Now == <<run, IF count = 0 THEN 0 ELSE (count - 1) \div CheckpointEvery>>

\* try: session.get(...) except Exception: return
WarmupAborts(o) == o = "raised"

\* as DirectoryAborts, without the else branch of the test of data['data']
DirectoryAborts_NoElse(resp) == resp.kind \in {"malformed", "null", "baditem"}

\* except around response.json(); if 'data' in data and data['data']: ... else: return
DirectoryAborts(resp) == resp.kind # "ok"

DailyReturns(funds) ==
    [c \in {funds[i] : i \in DOMAIN funds} |-> [daily_change |-> 0, name |-> c]]

\* if d.get('data'): latest = d['data'][0]; return code, latest.get('FIYAT'), latest.get('TARIH')
PrimaryReturns(resp) == resp.kind = "data"

PrimaryValue(resp) == [price |-> resp.price, date |-> "TARIH"]

\* if d.get('fundInfo') and len(d['fundInfo']) > 0: return code, info.get('SONFIYAT'), now
\* otherwise (or on an exception): return code, None, None
FallbackValue(resp) ==
    IF resp.kind = "info" THEN [price |-> resp.price, date |-> "NOW"] ELSE NoResult

FundRecord(code, r, info, stamp) ==
    [code |-> code, price |-> r.price, date |-> r.date,
     dailyChange |-> info.daily_change, daily_change |-> info.daily_change,
     name |-> info.name, fetchedAt |-> stamp]

\* as Merged, but a fund without a price loses its record
Merged_DropsOnMiss(m, code, r, info, stamp) ==
    IF r.price # NoPrice THEN DictSet(m, code, FundRecord(code, r, info, stamp))
    ELSE [keys |-> SelectSeq(m.keys, LAMBDA x : x # code),
          val  |-> [x \in Keys(m) \ {code} |-> m.val[x]]]

\* if price: price_data_map[code] = {...}
Merged(m, code, r, info, stamp) ==
    IF r.price # NoPrice THEN DictSet(m, code, FundRecord(code, r, info, stamp)) ELSE m

\* as IsCheckpoint, with == in place of %
IsCheckpoint_OnlyFirst(c) == c = CheckpointEvery

\* if count % 100 == 0: save_data(price_data_map)
IsCheckpoint(c) == c % CheckpointEvery = 0

\* save_data: if not data_map: return
SaveWrites(data_map) == data_map.keys # <<>>

\* as Snapshot, counting the funds processed instead of the keys
Snapshot_ProcessedCount(data_map, stamp) ==
    [lastUpdated |-> stamp, count |-> count, data |-> data_map]

Snapshot(data_map, stamp) ==
    [lastUpdated |-> stamp, count |-> Len(data_map.keys), data |-> data_map]

\* save_data: the value returned
SaveResult(data_map, stamp) ==
    IF SaveWrites(data_map) THEN <<Snapshot(data_map, stamp)>> ELSE <<>>

\* as SaveFile, but a file that exists is not replaced
SaveFile_KeepsExisting(f, data_map, stamp) ==
    IF SaveWrites(data_map) /\ f = <<>>
    THEN <<JsonDump(Snapshot(data_map, stamp))>> ELSE f

\* save_data: the file afterwards
SaveFile(f, data_map, stamp) ==
    IF SaveWrites(data_map) THEN <<JsonDump(Snapshot(data_map, stamp))>> ELSE f

\* the previous snapshot: if os.path.exists(...): old_data = json.load(f)
LoadExistingMap(f) == IF f # <<>> THEN JsonLoad(f[1]).data ELSE EmptyDict

\* as AfterFirebase, without the except Exception clause
AfterFirebase_ErrorPropagates(o) == IF o = "error" THEN "exit" ELSE "supabase"

\* push_to_firebase catches ImportError and Exception: it always returns
AfterFirebase(o) == "supabase"

\* push_to_supabase: records
Row(code, fund_data) ==
    [code |-> code, price |-> fund_data.price, date |-> fund_data.date,
     daily_change |-> fund_data.dailyChange, name |-> fund_data.name]

Rows(data) == [i \in DOMAIN data.keys |-> Row(data.keys[i], data.val[data.keys[i]])]

\* records[a:b]
Slice(s, a, b) == SubSeq(s, a + 1, IF b < Len(s) THEN b ELSE Len(s))

----------------------------------------------------------------------------
(* fetch_all_funds, step by step *)

Effect(kind) == called' = called \cup {kind}

InitLocals ==
    /\ warmup = "none"
    /\ dirResp = "none"
    /\ fund_list = <<>>
    /\ fund_daily_returns = <<>>
    /\ price_data_map = EmptyDict
    /\ count = 0
    /\ tried = {}
    /\ prim = NoResponse
    /\ res = NoResult
    /\ interrupted = FALSE
    /\ final_result = <<>>
    /\ fb = "none"
    /\ sbres = "none"
    /\ records = <<>>
    /\ sb_i = 0
    /\ posted = <<>>
    /\ called = {}

IdleDates ==
    /\ arg = FirstDay
    /\ d = FirstDay
    /\ dpc = "idle"

Init ==
    /\ pc = "warmup"
    /\ run = 1
    /\ file = <<>>
    /\ InitLocals
    /\ IdleDates

\* session.get(warm-up page): an exception returns, any response goes on
Warmup ==
    /\ pc = "warmup"
    /\ \E o \in WarmupOutcomes :
        /\ warmup' = o
        /\ pc' = IF WarmupAborts(o) THEN "aborted" ELSE "directory"
    /\ Effect("warmup")
    /\ UNCHANGED <<run, file, dirResp, fund_list, fund_daily_returns,
                   price_data_map, count, tried, prim, res, interrupted,
                   final_result, fb, sbres, records, sb_i, posted, dateVars>>

\* POST BindComparisonFundReturns and the parsing of its answer
FetchDirectory(lists) ==
    /\ pc = "directory"
    /\ \E resp \in DirResponses(lists) :
        /\ dirResp' = resp.kind
        /\ IF DirectoryAborts(resp)
           THEN /\ pc' = "aborted"
                /\ UNCHANGED <<fund_list, fund_daily_returns>>
           ELSE /\ pc' = "load"
                /\ fund_list' = resp.funds
                /\ fund_daily_returns' = DailyReturns(resp.funds)
    /\ Effect("directory")
    /\ UNCHANGED <<run, file, warmup, price_data_map, count, tried,
                   prim, res, interrupted, final_result, fb, sbres, records,
                   sb_i, posted, dateVars>>

\* price_data_map = {} or the data of the previous snapshot
LoadExisting ==
    /\ pc = "load"
    /\ price_data_map' = LoadExistingMap(file)
    /\ count' = 0
    /\ pc' = "loop"
    /\ UNCHANGED <<run, file, warmup, dirResp, fund_list,
                   fund_daily_returns, tried, prim, res, interrupted,
                   final_result, fb, sbres, records, sb_i, posted, called,
                   dateVars>>

\* for code in fund_list: count += 1
LoopHead ==
    /\ pc = "loop"
    /\ IF count < Len(fund_list)
       THEN /\ count' = count + 1
            /\ pc' = "primary"
       ELSE /\ pc' = "finally"
            /\ UNCHANGED count
    /\ UNCHANGED <<run, file, warmup, dirResp, fund_list,
                   fund_daily_returns, price_data_map, tried, prim, res,
                   interrupted, final_result, fb, sbres, records, sb_i, posted,
                   called, dateVars>>

\* get_price: POST BindHistoryInfo (the bare except swallows everything)
Primary ==
    /\ pc = "primary"
    /\ \E resp \in PrimaryResponses :
        /\ prim' = resp
        /\ IF PrimaryReturns(resp)
           THEN /\ res' = PrimaryValue(resp)
                /\ pc' = "merge"
           ELSE /\ res' = NoResult
                /\ pc' = "fallback"
    /\ tried' = tried \cup {"primary"}
    /\ Effect("history")
    /\ UNCHANGED <<run, file, warmup, dirResp, fund_list,
                   fund_daily_returns, price_data_map, count, interrupted,
                   final_result, fb, sbres, records, sb_i, posted, dateVars>>

\* get_price: POST GetAllFundAnalyzeData
Fallback ==
    /\ pc = "fallback"
    /\ \E resp \in FallbackResponses : res' = FallbackValue(resp)
    /\ pc' = "merge"
    /\ tried' = tried \cup {"fallback"}
    /\ Effect("analyze")
    /\ UNCHANGED <<run, file, warmup, dirResp, fund_list,
                   fund_daily_returns, price_data_map, count, prim,
                   interrupted, final_result, fb, sbres, records, sb_i, posted,
                   dateVars>>

\* get_price: KeyboardInterrupt during the fallback request (except Exception
\* does not catch it): the loop is left for the finally block
FallbackInterrupted ==
    /\ pc = "fallback"
    /\ pc' = "finally"
    /\ interrupted' = TRUE
    /\ tried' = {}
    /\ prim' = NoResponse
    /\ Effect("analyze")
    /\ UNCHANGED <<run, file, warmup, dirResp, fund_list,
                   fund_daily_returns, price_data_map, count, res,
                   final_result, fb, sbres, records, sb_i, posted, dateVars>>

\* the rest of the loop body: merge, sleep, progress line, periodic save_data
Merge ==
    /\ pc = "merge"
    /\ LET code == fund_list[count]
           m == Merged(price_data_map, code, res, fund_daily_returns[code], Now)
       IN /\ price_data_map' = m
          /\ IF IsCheckpoint(count)
             THEN /\ file' = SaveFile(file, m, Now)
                  /\ called' = IF SaveWrites(m) THEN called \cup {"write"} ELSE called
             ELSE UNCHANGED <<file, called>>
    /\ tried' = {}
    /\ prim' = NoResponse
    /\ res' = NoResult
    /\ pc' = "loop"
    /\ UNCHANGED <<run, warmup, dirResp, fund_list,
                   fund_daily_returns, count, interrupted, final_result, fb,
                   sbres, records, sb_i, posted, dateVars>>

\* the merge, then KeyboardInterrupt during time.sleep (not after the last fund)
MergeInterrupted ==
    /\ pc = "merge"
    /\ count < Len(fund_list)
    /\ LET code == fund_list[count]
       IN price_data_map' =
              Merged(price_data_map, code, res, fund_daily_returns[code], Now)
    /\ interrupted' = TRUE
    /\ tried' = {}
    /\ prim' = NoResponse
    /\ res' = NoResult
    /\ pc' = "finally"
    /\ UNCHANGED <<run, file, warmup, dirResp, fund_list,
                   fund_daily_returns, count, final_result, fb, sbres, records,
                   sb_i, posted, called, dateVars>>

\* finally: final_result = save_data(price_data_map); if final_result: ...
\* with no result the function returns False, or the pending exception goes on
Finally ==
    /\ pc = "finally"
    /\ final_result' = SaveResult(price_data_map, Now)
    /\ file' = SaveFile(file, price_data_map, Now)
    /\ called' = IF SaveWrites(price_data_map) THEN called \cup {"write"} ELSE called
    /\ pc' = IF final_result' # <<>> THEN "firebase" ELSE "exit"
    /\ UNCHANGED <<run, warmup, dirResp, fund_list,
                   fund_daily_returns, price_data_map, count, tried, prim, res,
                   interrupted, fb, sbres, records, sb_i, posted, dateVars>>

\* push_to_firebase(final_result)
Firebase ==
    /\ pc = "firebase"
    /\ \E o \in FirebaseOutcomes :
        /\ fb' = o
        /\ pc' = AfterFirebase(o)
    /\ Effect("firebase")
    /\ UNCHANGED <<run, file, warmup, dirResp, fund_list, fund_daily_returns,
                   price_data_map, count, tried, prim, res, interrupted,
                   final_result, sbres, records, sb_i, posted, dateVars>>

\* push_to_supabase(final_result): the credentials and the records
SupabaseStart ==
    /\ pc = "supabase"
    /\ \/ /\ sbres' = "skipped"
          /\ pc' = "done"
          /\ UNCHANGED <<records, sb_i, posted>>
       \/ /\ records' = Rows(final_result[1].data)
          /\ sb_i' = 0
          /\ posted' = <<>>
          /\ pc' = "sb_loop"
          /\ UNCHANGED sbres
    /\ Effect("supabase")
    /\ UNCHANGED <<run, file, warmup, dirResp, fund_list,
                   fund_daily_returns, price_data_map, count, tried, prim, res,
                   interrupted, final_result, fb, dateVars>>

\* one turn of: for i in range(0, len(records), batch_size)
\* an exception of requests.post leaves the loop for the outer except
SupabasePost ==
    /\ pc = "sb_loop"
    /\ sb_i < Len(records)
    /\ \E o \in PostOutcomes :
        /\ posted' = Append(posted,
                            [batch |-> Slice(records, sb_i, sb_i + batch_size),
                             outcome |-> o])
        /\ IF o = "raise"
           THEN /\ sbres' = "error"
                /\ pc' = "done"
                /\ UNCHANGED sb_i
           ELSE /\ sb_i' = sb_i + batch_size
                /\ UNCHANGED <<sbres, pc>>
    /\ UNCHANGED <<run, file, warmup, dirResp, fund_list,
                   fund_daily_returns, price_data_map, count, tried, prim, res,
                   interrupted, final_result, fb, records, called, dateVars>>

\* the range is exhausted
SupabaseEnd ==
    /\ pc = "sb_loop"
    /\ sb_i >= Len(records)
    /\ sbres' = "ok"
    /\ pc' = "done"
    /\ UNCHANGED <<run, file, warmup, dirResp, fund_list,
                   fund_daily_returns, price_data_map, count, tried, prim, res,
                   interrupted, final_result, fb, records, sb_i, posted, called,
                   dateVars>>

\* the script is started again (cron): only the file remains
NextRun ==
    /\ pc \in Terminal
    /\ run < MaxRuns
    /\ run' = run + 1
    /\ pc' = "warmup"
    /\ warmup' = "none"
    /\ dirResp' = "none"
    /\ fund_list' = <<>>
    /\ fund_daily_returns' = <<>>
    /\ price_data_map' = EmptyDict
    /\ count' = 0
    /\ tried' = {}
    /\ prim' = NoResponse
    /\ res' = NoResult
    /\ interrupted' = FALSE
    /\ final_result' = <<>>
    /\ fb' = "none"
    /\ sbres' = "none"
    /\ records' = <<>>
    /\ sb_i' = 0
    /\ posted' = <<>>
    /\ called' = {}
    /\ UNCHANGED <<file, dateVars>>

Next ==
    \/ Warmup
    \/ FetchDirectory(ShortLists)
    \/ LoadExisting
    \/ LoopHead
    \/ Primary
    \/ Fallback
    \/ FallbackInterrupted
    \/ Merge
    \/ MergeInterrupted
    \/ Finally
    \/ Firebase
    \/ SupabaseStart
    \/ SupabasePost
    \/ SupabaseEnd
    \/ NextRun

Spec == Init /\ [][Next]_vars

----------------------------------------------------------------------------
(* The same script when the directory lists several hundred funds *)

NextLong ==
    \/ Warmup
    \/ FetchDirectory(LongLists)
    \/ LoadExisting
    \/ LoopHead
    \/ Primary
    \/ Fallback
    \/ FallbackInterrupted
    \/ Merge
    \/ MergeInterrupted
    \/ Finally
    \/ Firebase
    \/ SupabaseStart
    \/ SupabasePost
    \/ SupabaseEnd

SpecLong == Init /\ [][NextLong]_vars

----------------------------------------------------------------------------
(* push_to_supabase on a snapshot of many funds *)

BigRecord(c) ==
    FundRecord(c, [price |-> 1, date |-> "TARIH"], [daily_change |-> 0, name |-> c],
               <<1, (c - 1) \div CheckpointEvery>>)

\* the map after a run over the distinct codes 1..n, each priced by the primary
BigDict(n) == [keys |-> [i \in 1..n |-> i], val |-> [c \in 1..n |-> BigRecord(c)]]

InitSupabase ==
    /\ pc = "supabase"
    /\ run = 1
    /\ \E n \in 1..MaxRecords :
        /\ fund_list = [i \in 1..n |-> i]
        /\ fund_daily_returns = DailyReturns([i \in 1..n |-> i])
        /\ price_data_map = BigDict(n)
        /\ count = n
        /\ final_result = SaveResult(BigDict(n), <<1, (n - 1) \div CheckpointEvery>>)
        /\ file = SaveFile(<<>>, BigDict(n), <<1, (n - 1) \div CheckpointEvery>>)
    /\ warmup = "ok"
    /\ dirResp = "ok"
    /\ tried = {}
    /\ prim = NoResponse
    /\ res = NoResult
    /\ interrupted = FALSE
    /\ fb = "nocred"
    /\ sbres = "none"
    /\ records = <<>>
    /\ sb_i = 0
    /\ posted = <<>>
    /\ called = {"warmup", "directory", "history", "write", "firebase"}
    /\ IdleDates

NextSupabase ==
    \/ SupabaseStart
    \/ SupabasePost
    \/ SupabaseEnd

SpecSupabase == InitSupabase /\ [][NextSupabase]_vars

----------------------------------------------------------------------------
(* The business-day calendar.  A date is its proleptic Gregorian ordinal    *)
(* (date.toordinal()); d - timedelta(days=1) is d - 1.                      *)

DaysBeforeMonth(m, leap) ==
    LET t == <<0, 31, 59, 90, 120, 151, 181, 212, 243, 273, 304, 334, 365>>
    IN t[m] + (IF leap /\ m > 2 THEN 1 ELSE 0)

\* <<year, month, day>> of an ordinal
Ymd(ordinal) ==
    LET n    == ordinal - 1
        n400 == n \div 146097
        r400 == n % 146097
        n100 == r400 \div 36524
        r100 == r400 % 36524
        n4   == r100 \div 1461
        r4   == r100 % 1461
        n1   == r4 \div 365
        r1   == r4 % 365
        year == n400 * 400 + n100 * 100 + n4 * 4 + n1 + 1
        leap == n1 = 3 /\ (n4 # 24 \/ n100 = 3)
        m    == CHOOSE k \in 1..12 :
                    /\ DaysBeforeMonth(k, leap) <= r1
                    /\ r1 < DaysBeforeMonth(k + 1, leap)
    IN IF n1 = 4 \/ n100 = 4
       THEN <<year - 1, 12, 31>>
       ELSE <<year, m, r1 - DaysBeforeMonth(m, leap) + 1>>

\* d.weekday(): Monday is 0
Weekday(ordinal) == (ordinal + 6) % 7

\* (month, day) of the fixed holidays
holidays == {<<1, 1>>, <<4, 23>>, <<5, 1>>, <<5, 19>>, <<7, 15>>, <<8, 30>>, <<10, 29>>}

\* as is_workday, without the test of the holidays
is_workday_NoHolidays(x) == IF Weekday(x) >= 5 THEN FALSE ELSE TRUE

is_workday(x) ==
    IF Weekday(x) >= 5 THEN FALSE
    ELSE IF <<Ymd(x)[2], Ymd(x)[3]>> \in holidays THEN FALSE
    ELSE TRUE

\* d = d - timedelta(days=1)
DayBefore(x) == x - 1

InitDates ==
    /\ pc = "warmup"
    /\ run = 1
    /\ file = <<>>
    /\ InitLocals
    /\ arg \in FirstDay..(FirstDay + SpanDays)
    /\ d = arg
    /\ dpc = "call"

\* get_prev_workday: d = d - timedelta(days=1)
PrevStart ==
    /\ dpc = "call"
    /\ d' = DayBefore(d)
    /\ dpc' = "test"
    /\ UNCHANGED <<arg, pipeVars>>

\* get_prev_workday: while not is_workday(d): d = d - timedelta(days=1)
PrevStep ==
    /\ dpc = "test"
    /\ ~is_workday(d)
    /\ d' = DayBefore(d)
    /\ UNCHANGED <<arg, dpc, pipeVars>>

\* get_prev_workday: return d
PrevReturn ==
    /\ dpc = "test"
    /\ is_workday(d)
    /\ dpc' = "returned"
    /\ UNCHANGED <<arg, d, pipeVars>>

NextDates ==
    \/ PrevStart
    \/ PrevStep
    \/ PrevReturn

\* the call runs to its end: each step is taken when it is the next statement
SpecDates == InitDates /\ [][NextDates]_vars /\ WF_vars(NextDates)

----------------------------------------------------------------------------
(* Properties *)

InLoop == {"loop", "primary", "fallback", "merge"}
AfterLoop == {"firebase", "supabase", "sb_loop", "done", "exit"}
Pushes == {"firebase", "supabase"}

\* the file holds a snapshot whose data is the map m
Written(f, m) == f # <<>> /\ JsonLoad(f[1]).data = m

\* C1: in the per-fund loop no step removes a key of price_data_map, and the
\* step that handles a fund for which get_price returned no price leaves the
\* map exactly as it was; the snapshot the finally block produces holds the
\* map as the loop left it.
C1_NoPriceLeavesMap ==
    /\ [][(pc \in InLoop) =>
            (Keys(price_data_map) \subseteq Keys(price_data_map')
             /\ ((pc = "merge" /\ res.price = NoPrice) =>
                    price_data_map' = price_data_map))]_vars
    /\ [](final_result # <<>> => final_result[1].data = price_data_map)

\* a second run wrote its final snapshot with a record of the first run still
\* in it, for a fund that this run processed without an interruption
C1_Witness ==
    /\ run = 2
    /\ pc = "firebase"
    /\ ~interrupted
    /\ \E i \in 1..count :
        /\ fund_list[i] \in Keys(final_result[1].data)
        /\ final_result[1].data.val[fund_list[i]].fetchedAt[1] = 1

\* C2: when get_price has returned, the fallback request was issued if the
\* primary raised or returned nothing usable (no data, or a first record with
\* no usable price), and a result without a price means both were issued.
C2_FallbackWheneverUnusable ==
    pc = "merge" =>
        /\ (prim.kind \in {"raise", "nodata"} \/ prim.price = NoPrice) =>
                "fallback" \in tried
        /\ res.price = NoPrice => tried = {"primary", "fallback"}

\* C3: after a failed warm-up GET (an exception or a non-2xx answer) nothing
\* but the warm-up has happened in the run.
C3_WarmupFailureAborts ==
    warmup \in {"raised", "non2xx"} => called = {"warmup"}

\* C4: after a directory answer that is not JSON, or has no or an empty data
\* member, the run is over: no price request, no write of the snapshot file
\* and no push has happened.
C4_BadDirectoryAborts ==
    dirResp \in {"malformed", "null", "nodata", "emptydata", "baditem"} =>
        /\ pc = "aborted"
        /\ called \cap {"history", "analyze", "write", "firebase", "supabase"} = {}

\* a second run aborted on an empty directory, the file of the first in place
C4_Witness ==
    /\ dirResp = "emptydata"
    /\ pc = "aborted"
    /\ file # <<>>

\* C5: a run that wrote its final snapshot ends only after push_to_supabase
\* was invoked, however push_to_firebase ended, and the file still holds the
\* snapshot that was written.
C5_SupabaseAlwaysInvoked ==
    (pc \in Terminal /\ final_result # <<>>) =>
        /\ "supabase" \in called
        /\ file = <<JsonDump(final_result[1])>>

\* both pushes failed, and the run ended with the file in place
C5_Witness ==
    /\ pc = "done"
    /\ fb = "error"
    /\ sbres = "error"
    /\ "supabase" \in called
    /\ file = <<JsonDump(final_result[1])>>

\* C6: when push_to_supabase has ended with credentials present, one request
\* was made for each of the ceil(N / batch_size) batches, whatever the
\* outcome of each request.
C6_EveryBatchPosted ==
    (pc = "done" /\ sbres \in {"ok", "error"}) =>
        Len(posted) = (Len(records) + batch_size - 1) \div batch_size

\* C7: the snapshot in the file, read back, has count equal to the number of
\* keys of data, and every key is the code of its record.
C7_SnapshotWellFormed ==
    file # <<>> =>
        LET s == JsonLoad(file[1])
        IN /\ s.count = Cardinality(Keys(s.data))
           /\ \A k \in Keys(s.data) : s.data.val[k].code = k

\* a snapshot written by the second run holds a record of the first run
C7_Witness ==
    /\ file # <<>>
    /\ file[1].lastUpdated[1] = 2
    /\ \E i \in DOMAIN file[1].data : file[1].data[i][2].fetchedAt[1] = 1

\* not Saturday or Sunday, and not one of the fixed holidays
Workday(x) == Weekday(x) \notin {5, 6} /\ <<Ymd(x)[2], Ymd(x)[3]>> \notin holidays

\* C8: get_prev_workday(d) returns, and what it returns is a workday strictly
\* before d with no workday strictly between it and d.
C8_PrevWorkday ==
    /\ <>(dpc = "returned")
    /\ [](dpc = "returned" =>
            /\ d < arg
            /\ Workday(d)
            /\ \A e \in (d + 1)..(arg - 1) : ~Workday(e))

\* a call that stepped over a holiday and a weekend
C8_Witness ==
    /\ dpc = "returned"
    /\ arg - d >= 4

\* C9 as stated: once the loop is over the file holds the map as it then
\* was, and a push has happened only after that write.
C9_AlwaysWritten ==
    pc \in AfterLoop =>
        /\ Written(file, price_data_map)
        /\ (called \cap Pushes # {}) => "write" \in called

\* C9 amended: once the loop is over, a map that is not empty is in the file,
\* written by this run, and a push has happened only after that write; with
\* an empty map the run has written nothing and pushes nothing.
C9_WrittenUnlessEmpty ==
    pc \in AfterLoop =>
        IF price_data_map.keys # <<>>
        THEN /\ Written(file, price_data_map)
             /\ file[1].lastUpdated = Now
             /\ "write" \in called
             /\ final_result = <<Snapshot(price_data_map, Now)>>
        ELSE /\ pc = "exit"
             /\ final_result = <<>>
             /\ called \cap ({"write"} \cup Pushes) = {}

\* an interrupted second run replaced the file of the first
C9_Witness ==
    /\ run = 2
    /\ pc = "firebase"
    /\ interrupted
    /\ Written(file, price_data_map)
    /\ \E k \in Keys(price_data_map) : price_data_map.val[k].fetchedAt[1] = 1

\* the funds whose turn of the loop is complete
Processed == IF pc = "loop" THEN count ELSE count - 1

====
